---- MODULE Spec2Model ----
(***************************************************************************)
(* Model of the homarr user router (src/server/api/routers/user.ts) and of *)
(* the widget edit modal (WidgetsEditModal).                               *)
(*                                                                         *)
(* Every procedure call is a process; each awaited store access of a       *)
(* handler is one atomic step, so calls interleave between store accesses. *)
(* The store does what the Prisma client does and enforces no constraint   *)
(* of its own: create appends a row, delete and update of a row that does  *)
(* not exist reject with the client's record-not-found error, which the    *)
(* procedure layer reports as INTERNAL_SERVER_ERROR.  Sessions of the      *)
(* protected procedures always carry a user id; the row it names may be    *)
(* gone.  The modal's updateConfig applies the callback it is given to the *)
(* config the modal edits.                                                 *)
(***************************************************************************)
EXTENDS Integers, Sequences, FiniteSets, TLC

\* ------------------------------------------------------------------ bounds
NumCalls == 2
MaxTime == 2
MaxUserId == 3
MaxLimit == 3
MaxPage == 2
MaxStoreUsers == 3
MaxWidgets == 3

\* ------------------------------------------------------------ input values
Calls == 1..NumCalls
Usernames == {<<"a">>, <<"a", "b">>}
Tokens == {"t1", "t2", "t3"}
UserIds == 1..MaxUserId
None == "none"
Undefined == "undefined"
ColorSchemes == {"light", "dark"}
Languages == {"en", "de"}
Boards == {"default", "home"}
\* an optional string: absent, or present with its characters
NoSearch == [defined |-> FALSE, str |-> <<>>]
Str(chars) == [defined |-> TRUE, str |-> chars]
Searches == {NoSearch, Str(<<>>), Str(<<"a">>), Str(<<"b">>)}
Keys == {"k1", "k2"}
Values == {0, 1}
WidgetIds == 1..MaxWidgets
NoOptions == [k \in {"undefined"} |-> 0]

VARIABLES
  users,             \* User rows (each with its UserSettings row), in store order
  invites,           \* Invite rows
  now,               \* the clock read by new Date()
  nextId,            \* next generated user id
  calls,             \* per call: procedure, input, position, locals, outcome
  config,            \* the stored config of useConfigStore (its widgets)
  modal,             \* WidgetsEditModal: "none", "open", "saved", "cancelled"
  innerProps,        \* props of the open modal
  moduleProperties,  \* the modal's draft (useState)
  configAtOpen       \* the stored config when the modal was opened

vars == <<users, invites, now, nextId, calls, config, modal, innerProps,
          moduleProperties, configAtOpen>>
serverVars == <<users, invites, now, nextId, calls>>
modalVars == <<config, modal, innerProps, moduleProperties, configAtOpen>>

\* ------------------------------------------------------------------ store
RECURSIVE SelectRows(_, _)
SelectRows(rows, keep) ==
  IF rows = <<>> THEN <<>>
  ELSE IF Head(rows).id \in keep
       THEN <<Head(rows)>> \o SelectRows(Tail(rows), keep)
       ELSE SelectRows(Tail(rows), keep)

UserCount == Len(users)
IdsOf(rows) == {rows[i].id : i \in 1..Len(rows)}
UserExists(id) == id \in IdsOf(users)
NameTaken(name) == \E i \in 1..Len(users) : users[i].name = name
InviteByToken(t) == {inv \in invites : inv.token = t}

DefaultSettings == [colorScheme |-> "light", language |-> "en", defaultBoard |-> "default"]

\* colorSchemeParser.parse(cookie) and cookies[COOKIE_LOCALE_KEY] ?? 'en'
CookieSettings(cookies) ==
  [DefaultSettings EXCEPT
     !.colorScheme = IF cookies.colorScheme = Undefined THEN "light" ELSE cookies.colorScheme,
     !.language = IF cookies.language = Undefined THEN "en" ELSE cookies.language]

IdleCall == [op |-> None, pc |-> "idle", username |-> None, inviteToken |-> None,
             tokenId |-> 0, isAdmin |-> FALSE, settings |-> DefaultSettings,
             input |-> None, result |-> "pending", ret |-> None, created |-> {}]

Finish(c, res) == [c EXCEPT !.pc = "done", !.result = res]

\* -------------------------------------------------- createUserInNotExist
\* variant: an existing user of that name is reported, the call goes on
createUserInNotExistFindLenient(c) ==
  IF NameTaken(c.username)
  THEN [c EXCEPT !.pc = "createUser", !.result = "CONFLICT"]
  ELSE [c EXCEPT !.pc = "createUser"]

\* findFirst({ where: { name } }) and the CONFLICT check
createUserInNotExistFind(c) ==
  IF NameTaken(c.username)
  THEN Finish(c, "CONFLICT")
  ELSE [c EXCEPT !.pc = "createUser"]

NewUserRow(c) ==
  [id |-> nextId, name |-> c.username, isAdmin |-> c.isAdmin, settings |-> c.settings]

\* user.create of createUserInNotExist; the caller continues after it
createUserInNotExistCreate(p) ==
  /\ calls[p].pc = "createUser"
  /\ users' = Append(users, NewUserRow(calls[p]))
  /\ nextId' = nextId + 1
  /\ calls' = [calls EXCEPT ![p] =
        LET c == [calls[p] EXCEPT !.created = @ \cup {nextId}]
        IN IF c.op = "createFromInvite"
           THEN [c EXCEPT !.pc = "inviteCreateUser"]
           ELSE Finish(c, "ok")]
  /\ UNCHANGED <<invites, now, modalVars>>

\* the findFirst step of a call that is already inside createUserInNotExist
createUserInNotExistFindFirst(p) ==
  /\ calls[p].pc = "findFirst"
  /\ calls' = [calls EXCEPT ![p] = createUserInNotExistFind(calls[p])]
  /\ UNCHANGED <<users, invites, now, nextId, modalVars>>

\* ----------------------------------------------------- createAdminAccount
createAdminAccount(p, username, cookies) ==
  /\ calls[p].pc = "idle"
  /\ calls' = [calls EXCEPT ![p] =
        LET c == [IdleCall EXCEPT !.op = "createAdminAccount", !.username = username,
                                  !.isAdmin = TRUE, !.settings = CookieSettings(cookies)]
        IN IF UserCount > 0 THEN Finish(c, "FORBIDDEN")
           ELSE [c EXCEPT !.pc = "findFirst"]]
  /\ UNCHANGED <<users, invites, now, nextId, modalVars>>

\* ------------------------------------------------------- createFromInvite
\* variant: the expiry of the invite is not looked at
TokenExpiredIgnored(inv) == FALSE

\* token.expires < new Date()
TokenExpired(inv) == inv.expires < now

createFromInvite(p, username, inviteToken, cookies) ==
  /\ calls[p].pc = "idle"
  /\ calls' = [calls EXCEPT ![p] =
        LET c == [IdleCall EXCEPT !.op = "createFromInvite", !.username = username,
                                  !.inviteToken = inviteToken,
                                  !.settings = CookieSettings(cookies)]
            found == InviteByToken(inviteToken)
        IN IF found = {} \/ \E inv \in found : TokenExpired(inv)
           THEN Finish(c, "FORBIDDEN")
           ELSE [c EXCEPT !.pc = "findFirst",
                          !.tokenId = (CHOOSE inv \in found : TRUE).id]]
  /\ UNCHANGED <<users, invites, now, nextId, modalVars>>

\* the handler's own user.create, after createUserInNotExist returned
createFromInviteCreateUser(p) ==
  /\ calls[p].pc = "inviteCreateUser"
  /\ users' = Append(users, [id |-> nextId, name |-> calls[p].username,
                             isAdmin |-> FALSE, settings |-> calls[p].settings])
  /\ nextId' = nextId + 1
  /\ calls' = [calls EXCEPT ![p] =
        [@ EXCEPT !.pc = "inviteDelete", !.created = @ \cup {nextId},
                  !.ret = [id |-> nextId, name |-> calls[p].username]]]
  /\ UNCHANGED <<invites, now, modalVars>>

\* invite.delete({ where: { id: token.id } }) and the return
createFromInviteDelete(p) ==
  /\ calls[p].pc = "inviteDelete"
  /\ LET row == {inv \in invites : inv.id = calls[p].tokenId}
     IN IF row = {}
        THEN /\ invites' = invites
             /\ calls' = [calls EXCEPT ![p] = Finish(@, "INTERNAL_SERVER_ERROR")]
        ELSE /\ invites' = invites \ row
             /\ calls' = [calls EXCEPT ![p] = Finish(@, "ok")]
  /\ UNCHANGED <<users, now, nextId, modalVars>>

\* ----------------------------------------------------------------- create
create(p, username) ==
  /\ calls[p].pc = "idle"
  /\ calls' = [calls EXCEPT ![p] =
        createUserInNotExistFind([IdleCall EXCEPT !.op = "create", !.username = username])]
  /\ UNCHANGED <<users, invites, now, nextId, modalVars>>

\* ------------------------------------------------------------- deleteUser
deleteUser(p, userId) ==
  /\ calls[p].pc = "idle"
  /\ IF UserExists(userId)
     THEN /\ users' = SelectRows(users, IdsOf(users) \ {userId})
          /\ calls' = [calls EXCEPT ![p] = Finish([IdleCall EXCEPT !.op = "deleteUser"], "ok")]
     ELSE /\ users' = users
          /\ calls' = [calls EXCEPT ![p] =
                Finish([IdleCall EXCEPT !.op = "deleteUser"], "INTERNAL_SERVER_ERROR")]
  /\ UNCHANGED <<invites, now, nextId, modalVars>>

\* ------------------------------------------------ settings procedures
\* update({ where: { id }, data }) of the settings of one user
UpdatedSettings(rows, userId, update) ==
  [i \in 1..Len(rows) |->
     IF rows[i].id = userId
     THEN [rows[i] EXCEPT !.settings =
             [f \in DOMAIN @ |-> IF f \in DOMAIN update THEN update[f] ELSE @[f]]]
     ELSE rows[i]]

\* the outcome of an update: it rejects with record-not-found when no row
\* has that id
UpdateOutcome(userId) == IF UserExists(userId) THEN "ok" ELSE "INTERNAL_SERVER_ERROR"

SettingsCall(opName, sessionUserId) ==
  Finish([IdleCall EXCEPT !.op = opName, !.input = [session |-> sessionUserId]],
         UpdateOutcome(sessionUserId))

changeColorScheme(p, sessionUserId, colorScheme) ==
  /\ calls[p].pc = "idle"
  /\ users' = UpdatedSettings(users, sessionUserId, [colorScheme |-> colorScheme])
  /\ calls' = [calls EXCEPT ![p] = SettingsCall("changeColorScheme", sessionUserId)]
  /\ UNCHANGED <<invites, now, nextId, modalVars>>

changeLanguage(p, sessionUserId, language) ==
  /\ calls[p].pc = "idle"
  /\ users' = UpdatedSettings(users, sessionUserId, [language |-> language])
  /\ calls' = [calls EXCEPT ![p] = SettingsCall("changeLanguage", sessionUserId)]
  /\ UNCHANGED <<invites, now, nextId, modalVars>>

\* of the seven fields written, the model keeps defaultBoard and language
updateSettings(p, sessionUserId, defaultBoard, language) ==
  /\ calls[p].pc = "idle"
  /\ users' = UpdatedSettings(users, sessionUserId,
                              [defaultBoard |-> defaultBoard, language |-> language])
  /\ calls' = [calls EXCEPT ![p] = SettingsCall("updateSettings", sessionUserId)]
  /\ UNCHANGED <<invites, now, nextId, modalVars>>

\* userSettings.update({ where: { userId } })
makeDefaultDashboard(p, sessionUserId, board) ==
  /\ calls[p].pc = "idle"
  /\ users' = UpdatedSettings(users, sessionUserId, [defaultBoard |-> board])
  /\ calls' = [calls EXCEPT ![p] = SettingsCall("makeDefaultDashboard", sessionUserId)]
  /\ UNCHANGED <<invites, now, nextId, modalVars>>

withSettings(p, sessionUserId) ==
  /\ calls[p].pc = "idle"
  /\ calls' = [calls EXCEPT ![p] =
        LET c == [IdleCall EXCEPT !.op = "withSettings", !.input = [session |-> sessionUserId]]
            found == {i \in 1..Len(users) : users[i].id = sessionUserId}
        IN IF found = {}
           THEN Finish(c, "NOT_FOUND")
           ELSE LET user == users[CHOOSE i \in found : TRUE]
                IN Finish([c EXCEPT !.ret = [id |-> user.id, name |-> user.name,
                                             settings |-> user.settings]], "ok")]
  /\ UNCHANGED <<users, invites, now, nextId, modalVars>>

\* -------------------------------------------------------------------- all
\* String.prototype-like containment used by { name: { contains } }
Contains(name, s) ==
  \E i \in 0..(Len(name) - Len(s)) : SubSeq(name, i + 1, i + Len(s)) = s

\* .transform((value) => (value === '' ? undefined : value))
SearchTransform(search) == IF search = Str(<<>>) THEN NoSearch ELSE search

\* where: { name: { contains: search } }; an undefined filter matches every row
Matches(row, search) == ~search.defined \/ Contains(row.name, search.str)

RECURSIVE Where(_, _)
Where(rows, search) ==
  IF rows = <<>> THEN <<>>
  ELSE IF Matches(Head(rows), search)
       THEN <<Head(rows)>> \o Where(Tail(rows), search)
       ELSE Where(Tail(rows), search)

Min(a, b) == IF a < b THEN a ELSE b

\* findMany({ take, skip, where })
findMany(rows, take, skip, search) ==
  LET m == Where(rows, search)
  IN SubSeq(m, skip + 1, Min(Len(m), skip + take))

\* the arguments the handler passes to findMany
allTake(limit) == limit + 1
allSkip(limit, page) == limit * page

\* Math.ceil(countUsers / limit)
CeilDiv(n, d) == (n + d - 1) \div d

allFindMany(p, limit, page, search) ==
  /\ calls[p].pc = "idle"
  /\ calls' = [calls EXCEPT ![p] =
        LET s == SearchTransform(search)
            found == findMany(users, allTake(limit), allSkip(limit, page), s)
        IN [IdleCall EXCEPT !.op = "all", !.pc = "allCount",
              !.input = [limit |-> limit, page |-> page, search |-> s],
              !.ret = [users |-> [i \in 1..Len(found) |->
                                    [id |-> found[i].id, name |-> found[i].name]]]]]
  /\ UNCHANGED <<users, invites, now, nextId, modalVars>>

allCount(p) ==
  /\ calls[p].pc = "allCount"
  /\ calls' = [calls EXCEPT ![p] =
        LET countUsers == Len(Where(users, calls[p].input.search))
        IN Finish([@ EXCEPT !.ret = [users |-> calls[p].ret.users,
                                     countPages |-> CeilDiv(countUsers, calls[p].input.limit)]],
                  "ok")]
  /\ UNCHANGED <<users, invites, now, nextId, modalVars>>

\* the clock advances between store accesses
Tick ==
  /\ now < MaxTime
  /\ now' = now + 1
  /\ UNCHANGED <<users, invites, nextId, calls, modalVars>>

NoCookies == [colorScheme |-> Undefined, language |-> Undefined]
Cookies == {NoCookies, [colorScheme |-> "dark", language |-> "de"]}

InitServer ==
  /\ users = <<>>
  /\ invites = {[id |-> 1, token |-> "t1", expires |-> 1],
                [id |-> 2, token |-> "t2", expires |-> MaxTime]}
  /\ now = 0
  /\ nextId = 1
  /\ calls = [p \in Calls |-> IdleCall]

InitModalIdle ==
  /\ config = [widgets |-> <<>>]
  /\ modal = "none"
  /\ innerProps = None
  /\ moduleProperties = None
  /\ configAtOpen = None

Init == InitServer /\ InitModalIdle

\* the account procedures: createAdminAccount, createFromInvite, create, deleteUser
AccountNext ==
  \/ \E p \in Calls, u \in Usernames : createAdminAccount(p, u, NoCookies)
  \/ \E p \in Calls, u \in Usernames, t \in Tokens : createFromInvite(p, u, t, NoCookies)
  \/ \E p \in Calls : createUserInNotExistFindFirst(p)
  \/ \E p \in Calls : createUserInNotExistCreate(p)
  \/ \E p \in Calls : createFromInviteCreateUser(p)
  \/ \E p \in Calls : createFromInviteDelete(p)
  \/ \E p \in Calls, u \in Usernames : create(p, u)
  \/ \E p \in Calls, id \in UserIds : deleteUser(p, id)
  \/ Tick

Next == AccountNext

Spec == Init /\ [][Next]_vars

\* createAdminAccount calls only, from the empty user store
AdminNext ==
  \/ \E p \in Calls, u \in Usernames, ck \in Cookies : createAdminAccount(p, u, ck)
  \/ \E p \in Calls : createUserInNotExistFindFirst(p)
  \/ \E p \in Calls : createUserInNotExistCreate(p)

SpecAdmin == Init /\ [][AdminNext]_vars

\* every procedure of userRouter
RouterNext ==
  \/ \E p \in Calls, u \in Usernames, ck \in Cookies : createAdminAccount(p, u, ck)
  \/ \E p \in Calls, u \in Usernames, t \in Tokens : createFromInvite(p, u, t, NoCookies)
  \/ \E p \in Calls : createUserInNotExistFindFirst(p)
  \/ \E p \in Calls : createUserInNotExistCreate(p)
  \/ \E p \in Calls : createFromInviteCreateUser(p)
  \/ \E p \in Calls : createFromInviteDelete(p)
  \/ \E p \in Calls, u \in Usernames : create(p, u)
  \/ \E p \in Calls, id \in UserIds : deleteUser(p, id)
  \/ \E p \in Calls, id \in UserIds, cs \in ColorSchemes : changeColorScheme(p, id, cs)
  \/ \E p \in Calls, id \in UserIds, l \in Languages : changeLanguage(p, id, l)
  \/ \E p \in Calls, id \in UserIds, b \in Boards, l \in Languages : updateSettings(p, id, b, l)
  \/ \E p \in Calls, id \in UserIds, b \in Boards : makeDefaultDashboard(p, id, b)
  \/ \E p \in Calls, id \in UserIds : withSettings(p, id)
  \/ \E p \in Calls, l \in 1..MaxLimit, pg \in 0..MaxPage, s \in Searches : allFindMany(p, l, pg, s)
  \/ \E p \in Calls : allCount(p)

SpecRouter == Init /\ [][RouterNext]_vars

\* all against an unchanged store
RECURSIVE Stores(_)
Stores(n) ==
  IF n = 0 THEN {<<>>}
  ELSE Stores(n - 1) \cup
       {Append(s, [id |-> n, name |-> u, isAdmin |-> FALSE, settings |-> DefaultSettings]) :
          s \in {t \in Stores(n - 1) : Len(t) = n - 1}, u \in Usernames}

InitAll ==
  /\ users \in Stores(MaxStoreUsers)
  /\ nextId = Len(users) + 1
  /\ invites = {}
  /\ now = 0
  /\ calls = [p \in Calls |-> IdleCall]
  /\ InitModalIdle

AllNext ==
  \/ \E p \in Calls, l \in 1..MaxLimit, pg \in 0..MaxPage, s \in Searches : allFindMany(p, l, pg, s)
  \/ \E p \in Calls : allCount(p)

SpecAll == InitAll /\ [][AllNext]_vars

\* ------------------------------------------------------- WidgetsEditModal
\* the setModuleProperties updater of handleChange: copy prev, set one key
handleChangeUpdater(prev, key, value) ==
  [k \in (DOMAIN prev) \cup {key} |-> IF k = key THEN value ELSE prev[k]]

WidgetIndex(widgets, widgetId) == {i \in 1..Len(widgets) : widgets[i].id = widgetId}

RECURSIVE FilterNotId(_, _)
FilterNotId(widgets, widgetId) ==
  IF widgets = <<>> THEN <<>>
  ELSE IF Head(widgets).id # widgetId
       THEN <<Head(widgets)>> \o FilterNotId(Tail(widgets), widgetId)
       ELSE FilterNotId(Tail(widgets), widgetId)

\* variant: only the keys the widget already has are taken from the draft
handleSaveCallbackKnownKeys(prev, widgetId, draft) ==
  LET k == CHOOSE i \in WidgetIndex(prev.widgets, widgetId) : TRUE
      old == prev.widgets[k].properties
      currentWidget == [prev.widgets[k] EXCEPT !.properties =
                          [key \in DOMAIN old |-> IF key \in DOMAIN draft THEN draft[key]
                                                  ELSE old[key]]]
  IN [prev EXCEPT !.widgets = FilterNotId(prev.widgets, widgetId) \o <<currentWidget>>]

\* variant: the edited widget is replaced where it stands
handleSaveCallbackInPlace(prev, widgetId, draft) ==
  [prev EXCEPT !.widgets = [i \in 1..Len(prev.widgets) |->
                              IF prev.widgets[i].id = widgetId
                              THEN [prev.widgets[i] EXCEPT !.properties = draft]
                              ELSE prev.widgets[i]]]

\* the callback handleSave passes to updateConfig (prev.widgets.find succeeds)
handleSaveCallback(prev, widgetId, draft) ==
  LET k == CHOOSE i \in WidgetIndex(prev.widgets, widgetId) :
                \A j \in WidgetIndex(prev.widgets, widgetId) : i <= j
      currentWidget == [prev.widgets[k] EXCEPT !.properties = draft]
  IN [prev EXCEPT !.widgets = FilterNotId(prev.widgets, widgetId) \o <<currentWidget>>]

\* the modal is mounted with its innerProps; useState(innerProps.options)
OpenModal(widgetId, options) ==
  /\ modal = "none"
  /\ modal' = "open"
  /\ innerProps' = [widgetId |-> widgetId, options |-> options]
  /\ moduleProperties' = options
  /\ configAtOpen' = config
  /\ UNCHANGED <<config, serverVars>>

\* the component renders nothing (no controls, no buttons) without options
ModalRendered == modal = "open" /\ innerProps.options # NoOptions

handleChange(key, value) ==
  /\ ModalRendered
  /\ moduleProperties' = handleChangeUpdater(moduleProperties, key, value)
  /\ UNCHANGED <<config, modal, innerProps, configAtOpen, serverVars>>

\* updateConfig applies the callback to the named config; when find returns
\* undefined the callback throws before anything is stored or closed
handleSave ==
  /\ ModalRendered
  /\ IF WidgetIndex(config.widgets, innerProps.widgetId) # {}
     THEN /\ config' = handleSaveCallback(config, innerProps.widgetId, moduleProperties)
          /\ modal' = "saved"
     ELSE UNCHANGED <<config, modal>>
  /\ UNCHANGED <<innerProps, moduleProperties, configAtOpen, serverVars>>

\* the cancel button: context.closeModal(id)
Cancel ==
  /\ ModalRendered
  /\ modal' = "cancelled"
  /\ UNCHANGED <<config, innerProps, moduleProperties, configAtOpen, serverVars>>

WidgetType(id) == IF id = 1 THEN "clock" ELSE "weather"
PropertyBags == {[k \in {"k1"} |-> 0], [k \in Keys |-> 1]}

\* widget lists with distinct ids, in any order
RECURSIVE WidgetLists(_)
WidgetLists(n) ==
  IF n = 0 THEN {<<>>}
  ELSE WidgetLists(n - 1) \cup
       {Append(w, [id |-> i, type |-> WidgetType(i), properties |-> b]) :
          w \in {v \in WidgetLists(n - 1) : Len(v) = n - 1},
          i \in WidgetIds, b \in PropertyBags}

DistinctIds(widgets) ==
  \A i, j \in 1..Len(widgets) : i # j => widgets[i].id # widgets[j].id

InitModal ==
  /\ InitServer
  /\ config \in {[widgets |-> w] : w \in {v \in WidgetLists(MaxWidgets) : DistinctIds(v)}}
  /\ modal = "none"
  /\ innerProps = None
  /\ moduleProperties = None
  /\ configAtOpen = None

ModalNext ==
  \/ \E id \in WidgetIds, o \in PropertyBags \cup {NoOptions} : OpenModal(id, o)
  \/ \E key \in Keys, value \in Values : handleChange(key, value)
  \/ handleSave
  \/ Cancel

SpecModal == InitModal /\ [][ModalNext]_vars

\* ================================================================= claims
StartsCall(p, opName) == calls[p].pc = "idle" /\ calls'[p].op = opName
DoneCalls(opName) == {p \in Calls : calls[p].op = opName /\ calls[p].pc = "done"}
OkCalls(opName) == {p \in DoneCalls(opName) : calls[p].result = "ok"}

\* C1: no two user rows have the same name.
C1_UniqueUsernames ==
  \A i, j \in 1..Len(users) : i # j => users[i].name # users[j].name

\* C2: from the empty store, at most one createAdminAccount call succeeds
\* and at most one user row has isAdmin = true.
C2_AtMostOneAdmin ==
  /\ Cardinality(OkCalls("createAdminAccount")) <= 1
  /\ Cardinality({i \in 1..Len(users) : users[i].isAdmin}) <= 1

\* C3: at most one createFromInvite call per token succeeds, and a call
\* that starts after a call carrying the same token has created a user
\* signals FORBIDDEN.
C3_InviteSingleUse ==
  [][/\ \A t \in Tokens :
          Cardinality({p \in Calls : /\ calls'[p].op = "createFromInvite"
                                     /\ calls'[p].inviteToken = t
                                     /\ calls'[p].result = "ok"}) <= 1
     /\ \A p \in Calls :
          (/\ StartsCall(p, "createFromInvite")
           /\ \E q \in Calls : /\ calls[q].op = "createFromInvite"
                               /\ calls[q].inviteToken = calls'[p].inviteToken
                               /\ calls[q].created # {})
          => calls'[p].result = "FORBIDDEN"]_vars

\* C4: a createFromInvite call whose token matches no invite row, or a row
\* whose expires is earlier than the current time, signals FORBIDDEN and
\* leaves the user rows and the invite rows unchanged.
C4_InvalidTokenForbidden ==
  [][\A p \in Calls :
       (/\ StartsCall(p, "createFromInvite")
        /\ \A inv \in invites : inv.token = calls'[p].inviteToken => inv.expires < now)
       => /\ calls'[p].pc = "done"
          /\ calls'[p].result = "FORBIDDEN"
          /\ calls'[p].created = {}
          /\ users' = users
          /\ invites' = invites]_vars

\* one call was refused for an expired invite row that is still in the
\* store, another for a token that matches no row
C4_Witness ==
  \E p, q \in DoneCalls("createFromInvite") :
     /\ calls[p].result = "FORBIDDEN"
     /\ \E inv \in invites : inv.token = calls[p].inviteToken /\ inv.expires < now
     /\ calls[q].result = "FORBIDDEN"
     /\ \A inv \in invites : inv.token # calls[q].inviteToken
     /\ users = <<>>

\* C5: every finished call succeeded or signalled FORBIDDEN, NOT_FOUND or
\* CONFLICT.
C5_ClosedFailureCategories ==
  \A p \in Calls :
     calls[p].pc = "done" => calls[p].result \in {"ok", "FORBIDDEN", "NOT_FOUND", "CONFLICT"}

\* C7 as stated: a create, createAdminAccount or createFromInvite call made
\* with the name of an existing user row does not end its first step in
\* anything but CONFLICT, and changes no row.
C7_ConflictOriginal ==
  [][\A p \in Calls :
       (/\ \/ StartsCall(p, "create")
           \/ StartsCall(p, "createAdminAccount")
           \/ StartsCall(p, "createFromInvite")
        /\ \E i \in 1..Len(users) : users[i].name = calls'[p].username)
       => /\ calls'[p].result \in {"CONFLICT", "pending"}
          /\ users' = users
          /\ invites' = invites]_vars

\* C7 amended: the name lookup of createUserInNotExist that finds a row ends
\* the call with CONFLICT; createAdminAccount started while a user row
\* exists ends with FORBIDDEN; neither changes a user row or an invite row.
C7_ConflictAmended ==
  [][\A p \in Calls :
       /\ (/\ \/ StartsCall(p, "create")
              \/ calls[p].pc = "findFirst" /\ calls'[p] # calls[p]
           /\ \E i \in 1..Len(users) : users[i].name = calls'[p].username)
          => /\ calls'[p].pc = "done"
             /\ calls'[p].result = "CONFLICT"
             /\ calls'[p].created = {}
             /\ users' = users
             /\ invites' = invites
       /\ (StartsCall(p, "createAdminAccount") /\ Len(users) > 0)
          => /\ calls'[p].pc = "done"
             /\ calls'[p].result = "FORBIDDEN"
             /\ users' = users
             /\ invites' = invites]_vars

\* a createFromInvite call ended in CONFLICT and its invite row is still there
C7_Witness ==
  \E p \in DoneCalls("createFromInvite") :
     /\ calls[p].result = "CONFLICT"
     /\ \E inv \in invites : inv.id = calls[p].tokenId
     /\ \E i \in 1..Len(users) : users[i].name = calls[p].username

\* C8: a finished all call returned at most limit users, shares no user
\* with the next page, gives countPages = ceil(n / limit), and the pages
\* 0..countPages-1 contain every matching user.
PageIds(limit, page, search) ==
  IdsOf(findMany(users, allTake(limit), allSkip(limit, page), search))

C8_Pagination ==
  \A p \in DoneCalls("all") :
     LET in == calls[p].input
         r == calls[p].ret
         matching == {i \in 1..Len(users) :
                        ~in.search.defined \/ Contains(users[i].name, in.search.str)}
         n == Cardinality(matching)
     IN /\ Len(r.users) <= in.limit
        /\ IdsOf(r.users) \cap PageIds(in.limit, in.page + 1, in.search) = {}
        /\ r.countPages * in.limit >= n
        /\ (r.countPages - 1) * in.limit < n
        /\ {users[i].id : i \in matching}
             \subseteq UNION {PageIds(in.limit, k, in.search) : k \in 0..(r.countPages - 1)}

\* C9: a successful createFromInvite call added exactly one user row, named
\* as the input says, and returns that row's id and name.
C9_InviteAddsOneRow ==
  \A p \in OkCalls("createFromInvite") :
     /\ Cardinality(calls[p].created) = 1
     /\ calls[p].ret.id \in calls[p].created
     /\ calls[p].ret.name = calls[p].username

SaveStep == modal = "open" /\ modal' = "saved"
StoredProperties(cfg, widgetId) ==
  {cfg.widgets[i].properties : i \in WidgetIndex(cfg.widgets, widgetId)}

\* C6: the stored config changes only in a handleSave step, after which the
\* stored properties of the edited widget are the whole draft; a cancelled
\* modal leaves the config as it was when the modal opened.
C6_PersistOnlyOnSave ==
  [][/\ config' # config => SaveStep
     /\ SaveStep => StoredProperties(config', innerProps.widgetId) = {moduleProperties}
     /\ modal' = "cancelled" => config' = configAtOpen]_vars

\* the draft was edited and then saved
C6_Witness ==
  /\ modal = "saved"
  /\ moduleProperties # innerProps.options
  /\ config # configAtOpen
  /\ StoredProperties(config, innerProps.widgetId) = {moduleProperties}

\* C10 as stated: handleSave keeps the sequence of widget ids, leaves the
\* other widgets unchanged and changes only the properties of the edited one.
C10_SameOrder ==
  [][SaveStep =>
       /\ Len(config'.widgets) = Len(config.widgets)
       /\ \A i \in 1..Len(config.widgets) :
            /\ config'.widgets[i].id = config.widgets[i].id
            /\ config.widgets[i].id # innerProps.widgetId
                 => config'.widgets[i] = config.widgets[i]
            /\ config.widgets[i].id = innerProps.widgetId
                 => config'.widgets[i] = [config.widgets[i] EXCEPT
                                            !.properties = config'.widgets[i].properties]]_vars

\* C10 amended: handleSave keeps the other widgets unchanged and in their
\* order, and puts the edited widget, changed only in its properties, last.
C10_MovedToEnd ==
  [][SaveStep =>
       LET w == config.widgets
           v == config'.widgets
           k == CHOOSE i \in 1..Len(w) : w[i].id = innerProps.widgetId
       IN /\ Len(v) = Len(w)
          /\ \A i \in 1..(k - 1) : v[i] = w[i]
          /\ \A i \in (k + 1)..Len(w) : v[i - 1] = w[i]
          /\ v[Len(v)] = [w[k] EXCEPT !.properties = v[Len(v)].properties]]_vars

\* a widget that was not the last one was saved
C10_Witness ==
  /\ modal = "saved"
  /\ Len(configAtOpen.widgets) >= 2
  /\ configAtOpen.widgets[1].id = innerProps.widgetId
  /\ config.widgets[Len(config.widgets)].id = innerProps.widgetId
====
